---- MODULE Spec2Model ----
(***************************************************************************)
(* Model of the elecciones submission gate of fincaserver-backend:         *)
(*   middleware/eleccionesAuth  eleccionesSecurityMiddleware               *)
(*   lib/playerValidator        isValidPlayer                              *)
(*   lib/rateLimiter            hasAlreadySubmitted, countIpSubmissions,   *)
(*                              countDeviceSubmissions, checkRateLimits,   *)
(*                              recordSubmissionAttempt                    *)
(*   lib/deviceFingerprint      getClientIp, getUserAgent                  *)
(*   routes/elecciones.routes   router.post('/') handler                   *)
(* The backing store (tables player_whitelist, elecciones,                 *)
(* elecciones_submissions) is shared state; every request is a sequential  *)
(* pipeline that yields at each await, so one action is one store call     *)
(* together with the synchronous code that follows it.                     *)
(***************************************************************************)
EXTENDS Integers, Sequences, FiniteSets, TLC

(***************************************************************************)
(* Bounds of the model.                                                    *)
(***************************************************************************)
NReq == 2
MaxRequests == 2
MaxTime == 2
MaxSeqRequests == 3
MaxFairRequests == 2

Reqs == 1..NReq

(***************************************************************************)
(* Strings are sequences of one-character strings.                         *)
(***************************************************************************)
\* String.prototype.trim: strip white space at both ends
RECURSIVE TrimLeft(_)
TrimLeft(s) == IF s # <<>> /\ Head(s) = " " THEN TrimLeft(Tail(s)) ELSE s

RECURSIVE TrimRight(_)
TrimRight(s) ==
  IF s # <<>> /\ s[Len(s)] = " " THEN TrimRight(SubSeq(s, 1, Len(s) - 1)) ELSE s

trim(s) == TrimRight(TrimLeft(s))

\* case folding as the store's ILIKE applies it
lower(c) ==
  CASE c = "A" -> "a"
    [] c = "B" -> "b"
    [] c = "X" -> "x"
    [] OTHER -> c

\* PostgreSQL  value ILIKE pattern : '_' matches one character, '%' any
\* run of characters (PostgREST reads '*' as '%'), a backslash makes the next
\* character literal (a pattern ending in one is an error, so no row is
\* selected), every other character matches itself up to case
RECURSIVE ilike(_, _)
ilike(value, pattern) ==
  IF pattern = <<>> THEN value = <<>>
  ELSE IF Head(pattern) = "\\"
       THEN /\ Len(pattern) >= 2
            /\ value # <<>>
            /\ lower(Head(value)) = lower(pattern[2])
            /\ ilike(Tail(value), Tail(Tail(pattern)))
  ELSE IF Head(pattern) \in {"%", "*"}
       THEN \/ ilike(value, Tail(pattern))
            \/ value # <<>> /\ ilike(Tail(value), pattern)
  ELSE IF value = <<>> THEN FALSE
  ELSE IF Head(pattern) = "_" THEN ilike(Tail(value), Tail(pattern))
  ELSE lower(Head(value)) = lower(Head(pattern))
       /\ ilike(Tail(value), Tail(pattern))


(***************************************************************************)
(* Request inputs.  A body value is undefined, a truthy non-string or a    *)
(* string; a header is absent ("none"), one string, or a list of strings.  *)
(***************************************************************************)
Undefined == [t |-> "undefined", s |-> <<>>]
NonString == [t |-> "number", s |-> <<>>]
NotRead == [t |-> "unread", s |-> <<>>]
S(chars) == [t |-> "string", s |-> chars]

NoHeader == [t |-> "none", v |-> <<>>]
HString(chars) == [t |-> "string", v |-> <<chars>>]
HArray(list) == [t |-> "array", v |-> list]

Unknown == <<"unknown">>
Unset == <<"undefined">>

\* String.prototype.split(',')[0]
RECURSIVE FirstEntry(_)
FirstEntry(s) ==
  IF s = <<>> \/ Head(s) = "," THEN <<>> ELSE <<Head(s)>> \o FirstEntry(Tail(s))

\* variant that resolves the socket address whatever the headers say
getClientIp_socketOnly(h) ==
  IF h.remoteAddress # <<>> THEN h.remoteAddress
  ELSE IF h.ip # <<>> THEN h.ip
  ELSE Unknown

\* variant that reads the forwarded-for header only when it is one string
getClientIp_stringOnly(h) ==
  LET forwardedFor == h.xff
      fromString == trim(FirstEntry(forwardedFor.v[1]))
      realIp == h.realIp
      fallback == IF h.remoteAddress # <<>> THEN h.remoteAddress
                  ELSE IF h.ip # <<>> THEN h.ip
                  ELSE Unknown
  IN  IF /\ forwardedFor.t = "string"
         /\ forwardedFor.v[1] # <<>>
         /\ fromString # <<>>
      THEN fromString
      ELSE IF realIp.t = "string" /\ realIp.v[1] # <<>>
      THEN realIp.v[1]
      ELSE fallback

getClientIp(h) ==
  LET forwardedFor == h.xff
      fromString == trim(FirstEntry(forwardedFor.v[1]))
      realIp == h.realIp
      fallback == IF h.remoteAddress # <<>> THEN h.remoteAddress
                  ELSE IF h.ip # <<>> THEN h.ip
                  ELSE Unknown
  IN  IF /\ forwardedFor.t = "string"
         /\ forwardedFor.v[1] # <<>>
         /\ fromString # <<>>
      THEN fromString
      ELSE IF /\ forwardedFor.t = "array"
              /\ Len(forwardedFor.v) > 0
              /\ trim(FirstEntry(forwardedFor.v[1])) # <<>>
      THEN trim(FirstEntry(forwardedFor.v[1]))
      ELSE IF realIp.t = "string" /\ realIp.v[1] # <<>>
      THEN realIp.v[1]
      ELSE fallback

getUserAgent(h) == IF h.ua # <<>> THEN h.ua ELSE Unknown

\* a request without any of the headers the gate reads and without a socket
\* address; Express runs without 'trust proxy', so req.ip is the socket address
NoHeaders ==
  [xff |-> NoHeader, realIp |-> NoHeader,
   remoteAddress |-> <<>>, ip |-> <<>>, ua |-> <<>>]

Body(name, fingerprint) ==
  [present |-> TRUE, mcName |-> name, deviceFingerprint |-> fingerprint]

NoBody == [present |-> FALSE, mcName |-> Undefined, deviceFingerprint |-> <<>>]

\* forwarded-for " 1,9", user agent U, socket 7      -> address 1
ViaProxy ==
  [xff |-> HString(<<" ", "1", ",", "9">>), realIp |-> NoHeader,
   remoteAddress |-> <<"7">>, ip |-> <<"7">>, ua |-> <<"U">>]

\* real-ip 2, no user agent, socket 7                -> address 2
ViaRealIp ==
  [xff |-> NoHeader, realIp |-> HString(<<"2">>),
   remoteAddress |-> <<"7">>, ip |-> <<"7">>, ua |-> <<>>]

\* no address header and no socket address           -> "unknown"
NoAddress ==
  [xff |-> NoHeader, realIp |-> NoHeader,
   remoteAddress |-> <<>>, ip |-> <<>>, ua |-> <<"U">>]

\* the requests the gate receives
Requests ==
  { [body |-> NoBody, headers |-> ViaProxy],
    [body |-> Body(Undefined, <<>>), headers |-> NoAddress],
    [body |-> Body(NonString, <<"D">>), headers |-> ViaProxy],
    [body |-> Body(S(<<" ">>), <<"D">>), headers |-> ViaRealIp],
    [body |-> Body(S(<<"c", "d">>), <<"D">>), headers |-> ViaProxy],
    [body |-> Body(S(<<"x">>), <<"D">>), headers |-> ViaRealIp],
    [body |-> Body(S(<<"a", "b">>), <<"D">>), headers |-> ViaProxy],
    [body |-> Body(S(<<"a", "b">>), <<"D">>), headers |-> ViaRealIp],
    [body |-> Body(S(<<"A", "B">>), <<"E">>), headers |-> ViaProxy],
    [body |-> Body(S(<<" ", "A", "b">>), <<>>), headers |-> NoAddress] }

(***************************************************************************)
(* State.                                                                  *)
(***************************************************************************)
VARIABLES
  config,      \* the thresholds read from the environment at load time
  whitelist,   \* table player_whitelist
  elecciones,  \* table elecciones (Submission rows)
  attempts,    \* table elecciones_submissions (Attempt rows)
  now,         \* the clock, in hours
  rq,          \* the request each pipeline is serving
  started      \* number of requests received so far

vars == <<config, whitelist, elecciones, attempts, now, rq, started>>

Outcomes == {"ok", "error", "throw"}

\* MAX_SUBMISSIONS_PER_MC_NAME, MAX_SUBMISSIONS_PER_IP,
\* MAX_SUBMISSIONS_PER_DEVICE and RATE_LIMIT_WINDOW_HOURS are read from the
\* environment; the gate specification runs with every limit set to 1
Configs ==
  [maxPerName : {1}, maxPerIp : {1}, maxPerDevice : {1}, windowHours : {1}]

GateWhitelist ==
  { [id |-> 1, mc_name |-> <<"a", "b">>, is_active |-> TRUE],
    [id |-> 2, mc_name |-> <<"c", "d">>, is_active |-> FALSE] }

idle ==
  [pc |-> "idle", headers |-> NoHeaders, mcName |-> NotRead, clientIp |-> Unset,
   deviceFingerprint |-> Unset, userAgent |-> Unset,
   status |-> 0, reason |-> "none", responses |-> 0, nextCalls |-> 0,
   queries |-> <<>>, whitelistLookup |-> "none", alreadySubmitted |-> "none",
   ipLookup |-> "none", ipCount |-> -1,
   deviceLookup |-> "none", deviceCount |-> -1,
   dataId |-> 0, recorded |-> 0]

Init ==
  /\ config \in Configs
  /\ whitelist = GateWhitelist
  /\ elecciones = <<>>
  /\ attempts = <<>>
  /\ now = 0
  /\ rq = [r \in Reqs |-> idle]
  /\ started = 0


(***************************************************************************)
(* The store's answers.  A call ends "ok" (the store evaluated the query), *)
(* "error" (an error result other than PGRST116) or "throw" (the client    *)
(* raised).  .single() answers the error PGRST116 unless exactly one row   *)
(* is selected.                                                            *)
(***************************************************************************)
truthy(v) == v.t = "number" \/ (v.t = "string" /\ v.s # <<>>)

\* !mcName || !mcName.trim()   (raises on a truthy value without trim)
\* variant of the missing-name check without the trim
blank_noTrim(v) == ~truthy(v)

blank(v) == ~truthy(v) \/ trim(v.s) = <<>>

Min(a, b) == IF a < b THEN a ELSE b

\* data of  ...select('id')....single() : the row, when exactly one is selected
single(n) == n = 1

\* rows of player_whitelist selected by .ilike('mc_name', name).eq('is_active', true)
whitelistRows(wl, name) ==
  {e \in wl : ilike(e.mc_name, name) /\ e.is_active = TRUE}

\* variants of isValidPlayer with one slip each
isValidPlayer_throwOpen(wl, mcName, outcome) ==
  IF blank(mcName) THEN FALSE
  ELSE IF outcome = "throw" THEN TRUE
  ELSE IF outcome = "error" THEN FALSE
  ELSE single(Cardinality(whitelistRows(wl, trim(mcName.s))))

isValidPlayer_errorOpen(wl, mcName, outcome) ==
  IF blank(mcName) THEN FALSE
  ELSE IF outcome = "throw" THEN FALSE
  ELSE IF outcome = "error" THEN TRUE
  ELSE single(Cardinality(whitelistRows(wl, trim(mcName.s))))

isValidPlayer_noRowsOk(wl, mcName, outcome) ==
  IF blank(mcName) THEN FALSE
  ELSE IF outcome = "throw" THEN FALSE
  ELSE IF outcome = "error" THEN FALSE
  ELSE Cardinality(whitelistRows(wl, trim(mcName.s))) <= 1

isValidPlayer(wl, mcName, outcome) ==
  IF blank(mcName) THEN FALSE
  ELSE LET normalizedName == trim(mcName.s)
       IN  IF outcome = "throw" THEN FALSE
           ELSE IF outcome = "error" THEN FALSE
           ELSE single(Cardinality(whitelistRows(wl, normalizedName)))

\* rows of elecciones selected by .ilike('mc_name', name)
submissionRows(el, name) ==
  {i \in 1..Len(el) : ilike(el[i].mc_name, name)}

\* variant of hasAlreadySubmitted that reports a submission on an exception
hasAlreadySubmitted_throwClosed(el, mcName, outcome) ==
  IF blank(mcName) THEN FALSE
  ELSE IF outcome = "throw" THEN TRUE
  ELSE IF outcome = "error" THEN FALSE
  ELSE single(Min(1, Cardinality(submissionRows(el, trim(mcName.s)))))

\* variant of hasAlreadySubmitted that reports a submission on an error result
hasAlreadySubmitted_failClosed(el, mcName, outcome) ==
  IF blank(mcName) THEN FALSE
  ELSE IF outcome = "throw" THEN FALSE
  ELSE IF outcome = "error" THEN TRUE
  ELSE single(Min(1, Cardinality(submissionRows(el, trim(mcName.s)))))

hasAlreadySubmitted(el, mcName, outcome) ==
  IF blank(mcName) THEN FALSE
  ELSE LET normalizedName == trim(mcName.s)
       IN  IF outcome = "throw" THEN FALSE
           ELSE IF outcome = "error" THEN FALSE
           ELSE single(Min(1, Cardinality(submissionRows(el, normalizedName))))

\* rows of elecciones_submissions inside the trailing window
\* variant with ...gt('submitted_at', ...) in place of gte
inWindow_strict(at, t, hours) == {i \in 1..Len(at) : at[i].submitted_at > t - hours}

inWindow(at, t, hours) == {i \in 1..Len(at) : at[i].submitted_at >= t - hours}

\* variant of the IP count that leaves out .eq('ip_address', ipAddress)
ipRows_anyAddress(at, ipAddress, t, hours) == inWindow(at, t, hours)

ipRows(at, ipAddress, t, hours) ==
  {i \in inWindow(at, t, hours) : at[i].ip_address = ipAddress}

\* variant of the device count that counts the rows of the latest name only
deviceRows_lastName(at, deviceFingerprint, t, hours) ==
  {i \in inWindow(at, t, hours) :
     /\ at[i].device_fingerprint = deviceFingerprint
     /\ at[i].mc_name = at[Len(at)].mc_name}

deviceRows(at, deviceFingerprint, t, hours) ==
  {i \in inWindow(at, t, hours) : at[i].device_fingerprint = deviceFingerprint}

\* variant of the guard of countIpSubmissions without the sentinel
ipQueried_always(ipAddress) == ipAddress # <<>>

ipQueried(ipAddress) == ~(ipAddress = <<>> \/ ipAddress = Unknown)

\* variant of countIpSubmissions that counts the success records only
countIpSubmissions_successOnly(at, ipAddress, t, hours, outcome) ==
  IF ~ipQueried(ipAddress) THEN 0
  ELSE IF outcome = "throw" THEN 0
  ELSE IF outcome = "error" THEN 0
  ELSE Cardinality({i \in ipRows(at, ipAddress, t, hours) :
                      at[i].status = "success"})

\* variant of countIpSubmissions that fails closed on an error result
countIpSubmissions_failClosed(at, ipAddress, t, hours, outcome) ==
  IF ~ipQueried(ipAddress) THEN 0
  ELSE IF outcome = "throw" THEN 0
  ELSE IF outcome = "error" THEN Len(at) + 99
  ELSE Cardinality(ipRows(at, ipAddress, t, hours))

countIpSubmissions(at, ipAddress, t, hours, outcome) ==
  IF ~ipQueried(ipAddress) THEN 0
  ELSE IF outcome = "throw" THEN 0
  ELSE IF outcome = "error" THEN 0
  ELSE Cardinality(ipRows(at, ipAddress, t, hours))

deviceQueried(deviceFingerprint) == deviceFingerprint # <<>>

countDeviceSubmissions(at, deviceFingerprint, t, hours, outcome) ==
  IF ~deviceQueried(deviceFingerprint) THEN 0
  ELSE IF outcome = "throw" THEN 0
  ELSE IF outcome = "error" THEN 0
  ELSE Cardinality(deviceRows(at, deviceFingerprint, t, hours))

\* the row recordSubmissionAttempt inserts; eleccionId 0 is an absent id
\* variant that writes status success whatever the id
attemptRow_success(mcName, ipAddress, deviceFingerprint, userAgent, eleccionId, t) ==
  [mc_name |-> trim(mcName.s),
   ip_address |-> ipAddress,
   device_fingerprint |-> deviceFingerprint,
   user_agent |-> userAgent,
   eleccion_id |-> IF eleccionId # 0 THEN eleccionId ELSE 0,
   status |-> "success",
   submitted_at |-> t]

attemptRow(mcName, ipAddress, deviceFingerprint, userAgent, eleccionId, t) ==
  [mc_name |-> trim(mcName.s),
   ip_address |-> ipAddress,
   device_fingerprint |-> deviceFingerprint,
   user_agent |-> userAgent,
   eleccion_id |-> IF eleccionId # 0 THEN eleccionId ELSE 0,
   status |-> IF eleccionId # 0 THEN "success" ELSE "failed",
   submitted_at |-> t]

recordSubmissionAttempt(at, row, outcome) ==
  IF outcome = "ok" THEN Append(at, row) ELSE at


(***************************************************************************)
(* eleccionesSecurityMiddleware, one action per await.                     *)
(***************************************************************************)
\* res.status(code).json(...): the request ends with one response; why
\* names the error text sent: "internal" is the gate's fixed text for a caught
\* fault, "exception" the handler's catch, which sends the fault's own message
respond(q, code, why) ==
  [q EXCEPT !.pc = "done", !.status = code, !.reason = why,
            !.responses = @ + 1]

\* what a request remembers of a store call: it answered, or it failed
lookup(outcome) == IF outcome = "ok" THEN "ok" ELSE "failed"

issued(q, query) == [q EXCEPT !.queries = Append(@, query)]

\* entry up to the first await: extraction and the missing-name check
\* variant whose catch sends the fault's own message
middlewareEntry_leaks(body, h) ==
  IF ~body.present
  THEN respond([idle EXCEPT !.headers = h], 500, "exception")
  ELSE LET q == [idle EXCEPT !.headers = h,
                             !.mcName = body.mcName,
                             !.clientIp = getClientIp(h),
                             !.deviceFingerprint = body.deviceFingerprint,
                             !.userAgent = getUserAgent(h)]
       IN  IF body.mcName.t = "number" THEN respond(q, 500, "exception")
           ELSE IF blank(body.mcName) THEN respond(q, 400, "missing")
           ELSE [q EXCEPT !.pc = "isValidPlayer"]

middlewareEntry(body, h) ==
  IF ~body.present
  THEN respond([idle EXCEPT !.headers = h], 500, "internal")
  ELSE LET q == [idle EXCEPT !.headers = h,
                             !.mcName = body.mcName,
                             !.clientIp = getClientIp(h),
                             !.deviceFingerprint = body.deviceFingerprint,
                             !.userAgent = getUserAgent(h)]
       IN  IF body.mcName.t = "number" THEN respond(q, 500, "internal")
           ELSE IF blank(body.mcName) THEN respond(q, 400, "missing")
           ELSE [q EXCEPT !.pc = "isValidPlayer"]

\* a pipeline takes the next of at most max requests drawn from reqs
ReceiveFrom(r, reqs, max) ==
  /\ rq[r].pc \in {"idle", "done"}
  /\ started < max
  /\ \E req \in reqs :
       rq' = [rq EXCEPT ![r] = middlewareEntry(req.body, req.headers)]
  /\ started' = started + 1
  /\ UNCHANGED <<config, whitelist, elecciones, attempts, now>>

Receive(r) == ReceiveFrom(r, Requests, MaxRequests)

\* await isValidPlayer(mcName) and the whitelist verdict
\* variant without the return after the 403 response
afterWhitelist_noReturn(q, wl, outcome) ==
  LET q1 == [issued(q, "player_whitelist") EXCEPT !.whitelistLookup = lookup(outcome)]
  IN  IF ~isValidPlayer(wl, q.mcName, outcome)
      THEN [respond(q1, 403, "whitelist") EXCEPT !.pc = "hasAlreadySubmitted"]
      ELSE [q1 EXCEPT !.pc = "hasAlreadySubmitted"]

afterWhitelist(q, wl, outcome) ==
  LET q1 == [issued(q, "player_whitelist") EXCEPT !.whitelistLookup = lookup(outcome)]
  IN  IF ~isValidPlayer(wl, q.mcName, outcome)
      THEN respond(q1, 403, "whitelist")
      ELSE [q1 EXCEPT !.pc = "hasAlreadySubmitted"]

WhitelistLookupWith(r, outcomes) ==
  /\ rq[r].pc = "isValidPlayer"
  /\ \E outcome \in outcomes :
       rq' = [rq EXCEPT ![r] = afterWhitelist(rq[r], whitelist, outcome)]
  /\ UNCHANGED <<config, whitelist, elecciones, attempts, now, started>>

WhitelistLookup(r) == WhitelistLookupWith(r, Outcomes)

\* checkRateLimits: await hasAlreadySubmitted(mcName)
\* variant that reports a submission only while an Attempt record of the
\* name is inside the window
afterSubmitted_windowed(q, el, outcome) ==
  LET alreadySubmitted ==
        /\ hasAlreadySubmitted(el, q.mcName, outcome)
        /\ \E i \in inWindow(attempts, now, config.windowHours) :
             ilike(attempts[i].mc_name, trim(q.mcName.s))
      q1 == [issued(q, "elecciones") EXCEPT
               !.alreadySubmitted = IF alreadySubmitted THEN "yes" ELSE "no"]
  IN  IF alreadySubmitted
      THEN respond(q1, 429, "name")
      ELSE [q1 EXCEPT !.pc = "countIpSubmissions"]

afterSubmitted(q, el, outcome) ==
  LET alreadySubmitted == hasAlreadySubmitted(el, q.mcName, outcome)
      q1 == [issued(q, "elecciones") EXCEPT
               !.alreadySubmitted = IF alreadySubmitted THEN "yes" ELSE "no"]
  IN  IF alreadySubmitted
      THEN respond(q1, 429, "name")
      ELSE [q1 EXCEPT !.pc = "countIpSubmissions"]

SubmittedLookupWith(r, outcomes) ==
  /\ rq[r].pc = "hasAlreadySubmitted"
  /\ \E outcome \in outcomes :
       rq' = [rq EXCEPT ![r] = afterSubmitted(rq[r], elecciones, outcome)]
  /\ UNCHANGED <<config, whitelist, elecciones, attempts, now, started>>

SubmittedLookup(r) == SubmittedLookupWith(r, Outcomes)

\* checkRateLimits: await countIpSubmissions(ipAddress)
\* variant of the IP check that denies only above the limit
afterIpCount_above(q, at, t, cfg, outcome) ==
  LET ipCount == countIpSubmissions(at, q.clientIp, t, cfg.windowHours, outcome)
      q1 == [(IF ipQueried(q.clientIp) THEN issued(q, "ip_address") ELSE q)
               EXCEPT !.ipCount = ipCount,
                      !.ipLookup = IF ipQueried(q.clientIp) THEN lookup(outcome)
                                   ELSE "skipped"]
  IN  IF ipCount > cfg.maxPerIp
      THEN respond(q1, 429, "ip")
      ELSE [q1 EXCEPT !.pc = "countDeviceSubmissions"]

afterIpCount(q, at, t, cfg, outcome) ==
  LET ipCount == countIpSubmissions(at, q.clientIp, t, cfg.windowHours, outcome)
      q1 == [(IF ipQueried(q.clientIp) THEN issued(q, "ip_address") ELSE q)
               EXCEPT !.ipCount = ipCount,
                      !.ipLookup = IF ipQueried(q.clientIp) THEN lookup(outcome)
                                   ELSE "skipped"]
  IN  IF ipCount >= cfg.maxPerIp
      THEN respond(q1, 429, "ip")
      ELSE [q1 EXCEPT !.pc = "countDeviceSubmissions"]

IpCountWith(r, outcomes) ==
  /\ rq[r].pc = "countIpSubmissions"
  /\ \E outcome \in (IF ipQueried(rq[r].clientIp) THEN outcomes ELSE {"ok"}) :
       rq' = [rq EXCEPT ![r] = afterIpCount(rq[r], attempts, now, config, outcome)]
  /\ UNCHANGED <<config, whitelist, elecciones, attempts, now, started>>

IpCount(r) == IpCountWith(r, Outcomes)

\* checkRateLimits: await countDeviceSubmissions(deviceFingerprint), then
\* the verdict of checkRateLimits and next()
\* variant of the device check that denies only above the limit
afterDeviceCount_above(q, at, t, cfg, outcome) ==
  LET deviceCount ==
        countDeviceSubmissions(at, q.deviceFingerprint, t, cfg.windowHours, outcome)
      q1 == [(IF deviceQueried(q.deviceFingerprint)
              THEN issued(q, "device_fingerprint") ELSE q)
               EXCEPT !.deviceCount = deviceCount,
                      !.deviceLookup = IF deviceQueried(q.deviceFingerprint)
                                       THEN lookup(outcome) ELSE "skipped"]
  IN  IF deviceCount > cfg.maxPerDevice
      THEN respond(q1, 429, "device")
      ELSE [q1 EXCEPT !.pc = "handler", !.nextCalls = @ + 1]

afterDeviceCount(q, at, t, cfg, outcome) ==
  LET deviceCount ==
        countDeviceSubmissions(at, q.deviceFingerprint, t, cfg.windowHours, outcome)
      q1 == [(IF deviceQueried(q.deviceFingerprint)
              THEN issued(q, "device_fingerprint") ELSE q)
               EXCEPT !.deviceCount = deviceCount,
                      !.deviceLookup = IF deviceQueried(q.deviceFingerprint)
                                       THEN lookup(outcome) ELSE "skipped"]
  IN  IF deviceCount >= cfg.maxPerDevice
      THEN respond(q1, 429, "device")
      ELSE [q1 EXCEPT !.pc = "handler", !.nextCalls = @ + 1]

DeviceCountWith(r, outcomes) ==
  /\ rq[r].pc = "countDeviceSubmissions"
  /\ \E outcome \in (IF deviceQueried(rq[r].deviceFingerprint)
                     THEN outcomes ELSE {"ok"}) :
       rq' = [rq EXCEPT ![r] =
                afterDeviceCount(rq[r], attempts, now, config, outcome)]
  /\ UNCHANGED <<config, whitelist, elecciones, attempts, now, started>>

DeviceCount(r) == DeviceCountWith(r, Outcomes)


(***************************************************************************)
(* router.post('/') handler, the protected operation behind the gate.      *)
(* The form fields the gate never reads are drawn when the handler reads   *)
(* them.                                                                   *)
(***************************************************************************)
Forms == {"complete", "noNombrePartido", "noFiles", "noBandera", "bigBandera"}
Attachments == {"none", "file", "bigFile"}

\* variant of the validation that records a failed attempt for a bad form
afterValidation_recorded(q, form) ==
  IF form = "noNombrePartido" THEN [q EXCEPT !.pc = "recordFailed"]
  ELSE IF form = "noFiles" THEN respond(q, 500, "exception")
  ELSE IF form \in {"noBandera", "bigBandera"} THEN respond(q, 400, "validation")
  ELSE [q EXCEPT !.pc = "uploadBandera"]

\* validation of the required fields and of the bandera file
afterValidation(q, form) ==
  IF form = "noNombrePartido" THEN respond(q, 400, "validation")
  ELSE IF form = "noFiles" THEN respond(q, 500, "exception")
  ELSE IF form \in {"noBandera", "bigBandera"} THEN respond(q, 400, "validation")
  ELSE [q EXCEPT !.pc = "uploadBandera"]

Validate(r) ==
  /\ rq[r].pc = "handler"
  /\ \E form \in Forms : rq' = [rq EXCEPT ![r] = afterValidation(rq[r], form)]
  /\ UNCHANGED <<config, whitelist, elecciones, attempts, now, started>>

\* await uploadFileToSupabase(bandera), then the attachment's size check
afterBandera(q, outcome, attachment) ==
  IF outcome # "ok" THEN respond(q, 500, "upload")
  ELSE IF attachment = "none" THEN [q EXCEPT !.pc = "insert"]
  ELSE IF attachment = "bigFile" THEN respond(q, 400, "validation")
  ELSE [q EXCEPT !.pc = "uploadAttachment"]

UploadBandera(r) ==
  /\ rq[r].pc = "uploadBandera"
  /\ \E outcome \in {"ok", "throw"}, attachment \in Attachments :
       rq' = [rq EXCEPT ![r] = afterBandera(rq[r], outcome, attachment)]
  /\ UNCHANGED <<config, whitelist, elecciones, attempts, now, started>>

\* await uploadFileToSupabase(attachment): a failure is logged and ignored
UploadAttachment(r) ==
  /\ rq[r].pc = "uploadAttachment"
  /\ rq' = [rq EXCEPT ![r].pc = "insert"]
  /\ UNCHANGED <<config, whitelist, elecciones, attempts, now, started>>

\* the Submission row; the columns no query of the gate reads are left out
eleccionRow(el, q) == [id |-> Len(el) + 1, mc_name |-> trim(q.mcName.s)]

insertEleccion(el, q, outcome) ==
  IF outcome = "ok" THEN Append(el, eleccionRow(el, q)) ELSE el

\* await supabase.from('elecciones').insert(eleccionData).select().single()
\* variant that answers a failed insert before recording the attempt
afterInsert_respondsFirst(q, el, outcome) ==
  IF outcome = "throw"
  THEN respond(issued(q, "insert elecciones"), 500, "exception")
  ELSE IF outcome = "error"
       THEN respond(issued(q, "insert elecciones"), 500, "database")
  ELSE [issued(q, "insert elecciones")
          EXCEPT !.pc = "recordSuccess", !.dataId = eleccionRow(el, q).id]

afterInsert(q, el, outcome) ==
  IF outcome = "throw"
  THEN respond(issued(q, "insert elecciones"), 500, "exception")
  ELSE IF outcome = "error"
       THEN [issued(q, "insert elecciones") EXCEPT !.pc = "recordFailed"]
  ELSE [issued(q, "insert elecciones")
          EXCEPT !.pc = "recordSuccess", !.dataId = eleccionRow(el, q).id]

InsertWith(r, outcomes) ==
  /\ rq[r].pc = "insert"
  /\ \E outcome \in outcomes :
       /\ elecciones' = insertEleccion(elecciones, rq[r], outcome)
       /\ rq' = [rq EXCEPT ![r] = afterInsert(rq[r], elecciones, outcome)]
  /\ UNCHANGED <<config, whitelist, attempts, now, started>>

Insert(r) == InsertWith(r, Outcomes)

orUnknown(v) == IF v = <<>> \/ v = Unset THEN Unknown ELSE v
orEmpty(v) == IF v = <<>> \/ v = Unset THEN <<>> ELSE v

\* the row of  await recordSubmissionAttempt(mcName, req.clientIp || 'unknown',
\*   req.deviceFingerprint || '', req.userAgent || 'unknown', data.id?)
\* variant that leaves out the last argument, data.id
handlerAttempt_noId(q, t) ==
  attemptRow(q.mcName, orUnknown(q.clientIp), orEmpty(q.deviceFingerprint),
             orUnknown(q.userAgent), 0, t)

handlerAttempt(q, t) ==
  attemptRow(q.mcName, orUnknown(q.clientIp), orEmpty(q.deviceFingerprint),
             orUnknown(q.userAgent), q.dataId, t)

\* variant in which an exception of the Attempt insert reaches the handler
afterRecord_raises(q, outcome) ==
  LET q1 == [issued(q, "insert elecciones_submissions")
               EXCEPT !.recorded = IF outcome = "ok" THEN @ + 1 ELSE @]
  IN  IF outcome = "throw" THEN respond(q1, 500, "exception")
      ELSE IF q.pc = "recordFailed" THEN respond(q1, 500, "database")
      ELSE respond(q1, 201, "created")

afterRecord(q, outcome) ==
  LET q1 == [issued(q, "insert elecciones_submissions")
               EXCEPT !.recorded = IF outcome = "ok" THEN @ + 1 ELSE @]
  IN  IF q.pc = "recordFailed" THEN respond(q1, 500, "database")
      ELSE respond(q1, 201, "created")

RecordWith(r, outcomes) ==
  /\ rq[r].pc \in {"recordFailed", "recordSuccess"}
  /\ \E outcome \in outcomes :
       /\ attempts' =
            recordSubmissionAttempt(attempts, handlerAttempt(rq[r], now), outcome)
       /\ rq' = [rq EXCEPT ![r] = afterRecord(rq[r], outcome)]
  /\ UNCHANGED <<config, whitelist, elecciones, now, started>>

Record(r) == RecordWith(r, Outcomes)

\* an hour passes
Tick ==
  /\ now < MaxTime
  /\ now' = now + 1
  /\ UNCHANGED <<config, whitelist, elecciones, attempts, rq, started>>

Next ==
  \/ \E r \in Reqs : Receive(r)
  \/ \E r \in Reqs : WhitelistLookup(r)
  \/ \E r \in Reqs : SubmittedLookup(r)
  \/ \E r \in Reqs : IpCount(r)
  \/ \E r \in Reqs : DeviceCount(r)
  \/ \E r \in Reqs : Validate(r)
  \/ \E r \in Reqs : UploadBandera(r)
  \/ \E r \in Reqs : UploadAttachment(r)
  \/ \E r \in Reqs : Insert(r)
  \/ \E r \in Reqs : Record(r)
  \/ Tick

Spec == Init /\ [][Next]_vars

TypeOK ==
  /\ now \in 0..MaxTime
  /\ started \in 0..(MaxRequests + MaxSeqRequests + MaxFairRequests)
  /\ \A r \in Reqs : rq[r].responses \in 0..1 /\ rq[r].nextCalls \in 0..1


(***************************************************************************)
(* One pipeline serving requests one after the other, the gate's lookups   *)
(* (whitelist, submission, counts) always answering; the inserts may fail. *)
(* Three identities are whitelisted and the limits vary.                   *)
(***************************************************************************)
SeqConfigs ==
  [maxPerName : {1}, maxPerIp : {1, 2}, maxPerDevice : {1, 2},
   windowHours : {1, 2}]

SeqWhitelist ==
  { [id |-> 1, mc_name |-> <<"a", "b">>, is_active |-> TRUE],
    [id |-> 2, mc_name |-> <<"c", "d">>, is_active |-> FALSE],
    [id |-> 3, mc_name |-> <<"e", "f">>, is_active |-> TRUE],
    [id |-> 4, mc_name |-> <<"g", "h">>, is_active |-> TRUE] }

SeqRequests ==
  { [body |-> Body(S(<<"a", "b">>), <<"D">>), headers |-> ViaProxy],
    [body |-> Body(S(<<"A", "B">>), <<"E">>), headers |-> ViaProxy],
    [body |-> Body(S(<<"e", "f">>), <<"D">>), headers |-> ViaRealIp],
    [body |-> Body(S(<<"g", "h">>), <<"D">>), headers |-> NoAddress],
    [body |-> Body(S(<<" ", "A", "b">>), <<>>), headers |-> NoAddress],
    [body |-> Body(S(<<"c", "d">>), <<"D">>), headers |-> ViaProxy] }

InitSeq ==
  /\ config \in SeqConfigs
  /\ whitelist = SeqWhitelist
  /\ elecciones = <<>>
  /\ attempts = <<>>
  /\ now = 0
  /\ rq = [r \in Reqs |-> idle]
  /\ started = 0

ReceiveSeq == ReceiveFrom(1, SeqRequests, MaxSeqRequests)
WhitelistAnswer == WhitelistLookupWith(1, {"ok"})
SubmittedAnswer == SubmittedLookupWith(1, {"ok"})
IpAnswer == IpCountWith(1, {"ok"})
DeviceAnswer == DeviceCountWith(1, {"ok"})

NextSeq ==
  \/ ReceiveSeq
  \/ WhitelistAnswer
  \/ SubmittedAnswer
  \/ IpAnswer
  \/ DeviceAnswer
  \/ Validate(1)
  \/ UploadBandera(1)
  \/ UploadAttachment(1)
  \/ Insert(1)
  \/ Record(1)
  \/ Tick

SpecSeq == InitSeq /\ [][NextSeq]_vars

(***************************************************************************)
(* The sequential pipeline with every one of the four environment values   *)
(* varied.                                                                 *)
(***************************************************************************)
ConfigInputs ==
  [maxPerName : {1, 2}, maxPerIp : {1, 2}, maxPerDevice : {1, 2},
   windowHours : {1, 2}]

InitConfig ==
  /\ config \in ConfigInputs
  /\ whitelist = SeqWhitelist
  /\ elecciones = <<>>
  /\ attempts = <<>>
  /\ now = 0
  /\ rq = [r \in Reqs |-> idle]
  /\ started = 0

SpecConfig == InitConfig /\ [][NextSeq]_vars

(***************************************************************************)
(* The same pipeline over whitelists of every content and over names with  *)
(* case variants, surrounding blanks and the characters ILIKE reads as     *)
(* pattern syntax.  The requests carry no address and no fingerprint, so   *)
(* the counts never deny.                                                  *)
(***************************************************************************)
NameEntries ==
  { [id |-> 1, mc_name |-> <<"a", "b">>, is_active |-> TRUE],
    [id |-> 2, mc_name |-> <<"A", "B">>, is_active |-> TRUE],
    [id |-> 3, mc_name |-> <<"a", "x", "b">>, is_active |-> TRUE],
    [id |-> 4, mc_name |-> <<"c", "d">>, is_active |-> FALSE] }

NameInputs ==
  { S(<<"a", "b">>), S(<<"A", "B">>), S(<<" ", "A", "b", " ">>),
    S(<<"a", "_", "b">>), S(<<"a", "X", "b">>), S(<<"a", "\\", "b">>),
    S(<<"%">>), S(<<"c", "d">>) }

NameRequests ==
  {[body |-> Body(name, <<>>), headers |-> NoAddress] : name \in NameInputs}

InitNames ==
  /\ config \in Configs
  /\ whitelist \in SUBSET NameEntries
  /\ elecciones = <<>>
  /\ attempts = <<>>
  /\ now = 0
  /\ rq = [r \in Reqs |-> idle]
  /\ started = 0

ReceiveName == ReceiveFrom(1, NameRequests, MaxSeqRequests)

NextNames ==
  \/ ReceiveName
  \/ WhitelistAnswer
  \/ SubmittedAnswer
  \/ IpAnswer
  \/ DeviceAnswer
  \/ Validate(1)
  \/ UploadBandera(1)
  \/ UploadAttachment(1)
  \/ Insert(1)
  \/ Record(1)

SpecNames == InitNames /\ [][NextNames]_vars

(***************************************************************************)
(* The same pipeline over the forms the address headers arrive in: the     *)
(* forwarded-for header absent, empty, one string or a list of strings,    *)
(* with a first entry that is blank or not; the real-ip header absent,     *)
(* empty or set; the socket with or without an address.                    *)
(***************************************************************************)
ForwardedForInputs ==
  { NoHeader,
    HString(<<>>),
    HString(<<" ", "1", ",", "9">>),
    HString(<<" ", ",", "9">>),
    HArray(<<>>),
    HArray(<< <<" ", "1", ",", "9">> >>),
    HArray(<< <<" ", "1", ",", "9">>, <<"8">> >>),
    HArray(<< <<" ", ",", "9">>, <<"8">> >>),
    HArray(<< <<>>, <<"8">> >>) }

RealIpInputs == {NoHeader, HString(<<>>), HString(<<"2">>)}

HeaderInputs ==
  { [xff |-> x, realIp |-> y, remoteAddress |-> a, ip |-> a, ua |-> <<"U">>] :
      x \in ForwardedForInputs, y \in RealIpInputs, a \in {<<>>, <<"7">>} }

HeaderRequests ==
  {[body |-> Body(S(<<"a", "b">>), <<>>), headers |-> h] : h \in HeaderInputs}

ReceiveHeaders == ReceiveFrom(1, HeaderRequests, MaxSeqRequests)

NextHeaders ==
  \/ ReceiveHeaders
  \/ WhitelistAnswer
  \/ SubmittedAnswer
  \/ IpAnswer
  \/ DeviceAnswer
  \/ Validate(1)
  \/ UploadBandera(1)
  \/ UploadAttachment(1)
  \/ Insert(1)
  \/ Record(1)

SpecHeaders == Init /\ [][NextHeaders]_vars

(***************************************************************************)
(* The concurrent pipelines with every store call of the gate returning or *)
(* failing: an await that is pending is resumed, so a gate step that is    *)
(* enabled is taken.                                                       *)
(***************************************************************************)
GateReturns ==
  \A r \in Reqs :
    /\ WF_vars(WhitelistLookup(r))
    /\ WF_vars(SubmittedLookup(r))
    /\ WF_vars(IpCount(r))
    /\ WF_vars(DeviceCount(r))

\* a body-less request, two requests of one identity from one address, a
\* request of a deactivated identity and one without address and fingerprint
FairRequests ==
  { [body |-> NoBody, headers |-> ViaProxy],
    [body |-> Body(S(<<"c", "d">>), <<"D">>), headers |-> ViaProxy],
    [body |-> Body(S(<<"a", "b">>), <<"D">>), headers |-> ViaProxy],
    [body |-> Body(S(<<"A", "B">>), <<"E">>), headers |-> ViaProxy],
    [body |-> Body(S(<<" ", "A", "b">>), <<>>), headers |-> NoAddress] }

ReceiveFair(r) == ReceiveFrom(r, FairRequests, MaxFairRequests)

NextFair ==
  \/ \E r \in Reqs : ReceiveFair(r)
  \/ \E r \in Reqs : WhitelistLookup(r)
  \/ \E r \in Reqs : SubmittedLookup(r)
  \/ \E r \in Reqs : IpCount(r)
  \/ \E r \in Reqs : DeviceCount(r)
  \/ \E r \in Reqs : Validate(r)
  \/ \E r \in Reqs : UploadBandera(r)
  \/ \E r \in Reqs : UploadAttachment(r)
  \/ \E r \in Reqs : Insert(r)
  \/ \E r \in Reqs : Record(r)

SpecFair == Init /\ [][NextFair]_vars /\ GateReturns

(***************************************************************************)
(* The same pipelines with every step of the handler running and every     *)
(* store call returning or failing, except the Attempt insert, which may   *)
(* stay pending.                                                           *)
(***************************************************************************)
HandlerRuns ==
  \A r \in Reqs :
    /\ WF_vars(Validate(r))
    /\ WF_vars(UploadBandera(r))
    /\ WF_vars(UploadAttachment(r))
    /\ WF_vars(Insert(r))

SpecPending == Init /\ [][NextFair]_vars /\ GateReturns /\ HandlerRuns

(***************************************************************************)
(* The sequential pipeline serving two clients, one on socket address 6    *)
(* with user agent U and one on socket address 7 with user agent V, each   *)
(* sending no forwarded-for header or one it chose.                        *)
(***************************************************************************)
SpoofRequests ==
  { [body |-> Body(S(<<"a", "b">>), <<>>),
     headers |-> [xff |-> x, realIp |-> NoHeader,
                  remoteAddress |-> c[1], ip |-> c[1], ua |-> c[2]]] :
      x \in {NoHeader, HString(<<"1">>), HString(<<"3">>)},
      c \in {<< <<"6">>, <<"U">> >>, << <<"7">>, <<"V">> >>} }

ReceiveSpoof == ReceiveFrom(1, SpoofRequests, MaxSeqRequests)

NextSpoof ==
  \/ ReceiveSpoof
  \/ WhitelistAnswer
  \/ SubmittedAnswer
  \/ IpAnswer
  \/ DeviceAnswer
  \/ Validate(1)
  \/ UploadBandera(1)
  \/ UploadAttachment(1)
  \/ Insert(1)
  \/ Record(1)

SpecSpoof == Init /\ [][NextSpoof]_vars

(***************************************************************************)
(* Properties of the gate.                                                 *)
(***************************************************************************)
admitted(q) == q.nextCalls > 0
rejected(q) == q.responses > 0 /\ q.nextCalls = 0

normalized(name) == [i \in 1..Len(trim(name)) |-> lower(trim(name)[i])]

C2_queriesOf(q) == SubSeq(q.queries, 2, Len(q.queries))

C2_FixedOrderShortCircuit ==
  \A r \in Reqs :
    LET q == rq[r]
        ipPart == IF ipQueried(q.clientIp) THEN <<"ip_address">> ELSE <<>>
        devicePart == IF deviceQueried(q.deviceFingerprint)
                      THEN <<"device_fingerprint">> ELSE <<>>
    IN  /\ q.alreadySubmitted = "yes" =>
             /\ rejected(q) /\ q.status = 429 /\ q.reason = "name"
             /\ C2_queriesOf(q) = <<"elecciones">>
             /\ q.ipCount = -1 /\ q.deviceCount = -1
        /\ (q.alreadySubmitted = "no" /\ q.ipCount >= config.maxPerIp) =>
             /\ rejected(q) /\ q.status = 429 /\ q.reason = "ip"
             /\ C2_queriesOf(q) = <<"elecciones">> \o ipPart
             /\ q.deviceCount = -1
        /\ (q.ipCount \in 0..(config.maxPerIp - 1)
              /\ q.deviceCount >= config.maxPerDevice) =>
             /\ q.alreadySubmitted = "no"
             /\ rejected(q) /\ q.status = 429 /\ q.reason = "device"
             /\ C2_queriesOf(q) = <<"elecciones">> \o ipPart \o devicePart
        /\ q.deviceCount \in 0..(config.maxPerDevice - 1) =>
             /\ q.alreadySubmitted = "no"
             /\ q.ipCount \in 0..(config.maxPerIp - 1)
             /\ admitted(q)
             /\ SubSeq(q.queries, 2, Len(ipPart) + Len(devicePart) + 2)
                  = <<"elecciones">> \o ipPart \o devicePart
        /\ q.reason \in {"name", "ip", "device"} =>
             \/ q.alreadySubmitted = "yes"
             \/ q.ipCount >= config.maxPerIp
             \/ q.deviceCount >= config.maxPerDevice

\* denied with ip-limit while the device of the request is over its limit too
C2_Witness ==
  \E r \in Reqs :
    /\ rq[r].reason = "ip"
    /\ deviceQueried(rq[r].deviceFingerprint)
    /\ Cardinality(deviceRows(attempts, rq[r].deviceFingerprint, now,
                              config.windowHours)) >= config.maxPerDevice


\* C3: a request whose name matches no whitelist entry is rejected with 403,
\* never admitted, and issues no Submission lookup and no Attempt count.
C3_absent(q) ==
  /\ q.mcName.t = "string"
  /\ q.whitelistLookup # "none"
  /\ \A e \in whitelist : normalized(e.mc_name) # normalized(q.mcName.s)

C4_blankName(q) ==
  q.mcName.t = "undefined" \/ (q.mcName.t = "string" /\ trim(q.mcName.s) = <<>>)

C4_BlankNameNoQuery ==
  \A r \in Reqs :
    C4_blankName(rq[r]) =>
      /\ rejected(rq[r]) /\ rq[r].status = 400 /\ rq[r].reason = "missing"
      /\ rq[r].queries = <<>>
      /\ rq[r].whitelistLookup = "none" /\ rq[r].alreadySubmitted = "none"
      /\ rq[r].ipLookup = "none" /\ rq[r].deviceLookup = "none"
      /\ \A outcome \in Outcomes :
           ~isValidPlayer(whitelist, rq[r].mcName, outcome)

C4_Witness ==
  /\ \E r \in Reqs : rq[r].mcName = S(<<" ">>) /\ rq[r].status = 400
  /\ \E r \in Reqs : rq[r].mcName = Undefined /\ rq[r].status = 400

\* C5: when the whitelist lookup returns an error or throws, the request is
\* rejected with 403 and not admitted, also for a whitelisted name.
C5_EligibilityFailsClosed ==
  \A r \in Reqs :
    rq[r].whitelistLookup = "failed" =>
      /\ rejected(rq[r]) /\ rq[r].status = 403
      /\ rq[r].queries = <<"player_whitelist">>

C5_Witness ==
  \E r \in Reqs :
    /\ rq[r].whitelistLookup = "failed" /\ rq[r].status = 403
    /\ whitelistRows(whitelist, trim(rq[r].mcName.s)) # {}

\* C6: when a count query returns an error or throws, the count is 0 and
\* checkRateLimits does not deny on that dimension, whatever the store holds.
C6_CountingFailsSoft ==
  \A r \in Reqs :
    /\ rq[r].ipLookup = "failed" =>
         /\ rq[r].ipCount = 0
         /\ rq[r].reason # "ip"
         /\ rq[r].deviceLookup # "none" \/ rq[r].pc = "countDeviceSubmissions"
    /\ rq[r].deviceLookup = "failed" =>
         /\ rq[r].deviceCount = 0
         /\ rq[r].reason # "device"
         /\ admitted(rq[r])

\* both counts failed while the store holds the maximum for both dimensions,
\* and the request was admitted
C6_Witness ==
  \E r \in Reqs :
    /\ rq[r].ipLookup = "failed" /\ rq[r].deviceLookup = "failed"
    /\ rq[r].pc = "handler"
    /\ Cardinality(ipRows(attempts, rq[r].clientIp, now, config.windowHours))
         >= config.maxPerIp
    /\ Cardinality(deviceRows(attempts, rq[r].deviceFingerprint, now,
                              config.windowHours)) >= config.maxPerDevice


\* C7: at most one Submission row per trimmed, case-folded identity name.
C7_OneSubmissionPerName ==
  \A i, j \in 1..Len(elecciones) :
    i # j => normalized(elecciones[i].mc_name) # normalized(elecciones[j].mc_name)

\* C8: the duplicate-identity check reserves nothing: while no Submission
\* row matches a name, every request claiming it passes hasAlreadySubmitted,
\* so two requests for one name can both be admitted before either inserts.
C8_step(r) ==
  /\ rq[r].pc = "hasAlreadySubmitted"
  /\ rq'[r].pc # "hasAlreadySubmitted"

C8_CheckThenActRace ==
  [][\A r \in Reqs :
       (C8_step(r) /\ submissionRows(elecciones, trim(rq[r].mcName.s)) = {}) =>
         /\ rq'[r].alreadySubmitted = "no"
         /\ rq'[r].pc = "countIpSubmissions"
         /\ elecciones' = elecciones]_vars

C8_beforeInsert(q) ==
  /\ admitted(q) /\ q.alreadySubmitted = "no"
  /\ q.pc \in {"handler", "uploadBandera", "uploadAttachment", "insert"}

C8_Witness ==
  \E r1, r2 \in Reqs :
    /\ r1 # r2
    /\ C8_beforeInsert(rq[r1]) /\ C8_beforeInsert(rq[r2])
    /\ normalized(rq[r1].mcName.s) = normalized(rq[r2].mcName.s)
    /\ elecciones = <<>>

\* C9 as claimed: at the moment a request is admitted the store holds fewer
\* than maxPerIp Attempt rows in the window for its address and fewer than
\* maxPerDevice for its fingerprint.
C9_admission(r) == ~admitted(rq[r]) /\ admitted(rq'[r])

C9_BelowLimitsAtAdmission ==
  [][\A r \in Reqs :
       C9_admission(r) =>
         /\ Cardinality(ipRows(attempts, rq'[r].clientIp, now,
                               config.windowHours)) < config.maxPerIp
         /\ Cardinality(deviceRows(attempts, rq'[r].deviceFingerprint, now,
                                   config.windowHours)) < config.maxPerDevice]_vars

\* C9 amended: a request is admitted only when the counts returned to it
\* were below the limits; a returned count is the number of Attempt rows in
\* the window when its query ran, if the value was queried and the query
\* answered, and 0 otherwise.
C9_ipStep(r) ==
  rq[r].pc = "countIpSubmissions" /\ rq'[r].pc # "countIpSubmissions"

C9_deviceStep(r) ==
  rq[r].pc = "countDeviceSubmissions" /\ rq'[r].pc # "countDeviceSubmissions"

C9_ReturnedCountsBelowLimits ==
  [][\A r \in Reqs :
       /\ C9_ipStep(r) =>
            rq'[r].ipCount =
              IF rq'[r].ipLookup = "ok"
              THEN Cardinality(ipRows(attempts, rq[r].clientIp, now,
                                      config.windowHours))
              ELSE 0
       /\ C9_deviceStep(r) =>
            rq'[r].deviceCount =
              IF rq'[r].deviceLookup = "ok"
              THEN Cardinality(deviceRows(attempts, rq[r].deviceFingerprint,
                                          now, config.windowHours))
              ELSE 0
       /\ C9_admission(r) =>
            /\ rq'[r].ipCount \in 0..(config.maxPerIp - 1)
            /\ rq'[r].deviceCount \in 0..(config.maxPerDevice - 1)]_vars

\* admitted with both counts answered by the store, other rows being in it
C9_Witness ==
  \E r \in Reqs :
    /\ rq[r].pc = "handler"
    /\ rq[r].ipLookup = "ok" /\ rq[r].deviceLookup = "ok"
    /\ attempts # <<>>

\* C10 as claimed: every request that has ended left one Attempt row.
C10_EveryRequestRecorded ==
  \A r \in Reqs : rq[r].pc = "done" => rq[r].recorded = 1

\* C10 amended: the handler issues the Attempt insert once, after its
\* Submission insert returned a row or an error result, and the row is stored
\* when that insert succeeds; a request rejected by the gate, or ended by a
\* validation failure, an upload failure or a raised fault, writes none.
C10_inserts(q) ==
  Cardinality({i \in 1..Len(q.queries) :
                 q.queries[i] = "insert elecciones_submissions"})

C10_RecordedAfterSubmissionInsert ==
  /\ Len(attempts) <= started
  /\ \A r \in Reqs :
       LET q == rq[r]
       IN  /\ q.recorded = C10_inserts(q) \/ q.recorded = 0
           /\ C10_inserts(q) <= 1
           /\ q.pc = "done" =>
                /\ q.reason \in {"created", "database"} <=> C10_inserts(q) = 1
                /\ q.status \in {400, 403, 429} => C10_inserts(q) = 0
                /\ q.status = 201 => q.dataId # 0
                /\ (q.status = 500 /\ C10_inserts(q) = 1) => q.dataId = 0
           /\ C10_inserts(q) = 1 =>
                /\ admitted(q)
                /\ q.queries[Len(q.queries) - 1] = "insert elecciones"
           /\ q.recorded = 1 =>
                \E i \in 1..Len(attempts) :
                  /\ attempts[i].mc_name = trim(q.mcName.s)
                  /\ attempts[i].ip_address = orUnknown(q.clientIp)
                  /\ attempts[i].eleccion_id = q.dataId
                  /\ attempts[i].status =
                       IF q.reason = "created" THEN "success" ELSE "failed"
           /\ q.pc \in {"recordFailed", "recordSuccess"} =>
                q.queries[Len(q.queries)] = "insert elecciones"

\* requests ended by the gate, by validation and by the database, with the
\* one Attempt row of the last
C10_Witness ==
  \E r1, r2 \in Reqs :
    /\ rq[r1].pc = "done" /\ rq[r1].reason = "database" /\ rq[r1].recorded = 1
    /\ rq[r2].pc = "done" /\ rq[r2].reason = "validation" /\ rq[r2].recorded = 0
    /\ Len(attempts) = 1


\* C11: names equal after trimming and case folding get the same answer
\* from isValidPlayer, and once one of them has a Submission row
\* hasAlreadySubmitted is true for the other.
C11_sameIdentity(n1, n2) == normalized(n1.s) = normalized(n2.s)

C11_hasRow(name) ==
  \E i \in 1..Len(elecciones) : elecciones[i].mc_name = trim(name.s)

C11_SameIdentitySameAnswers ==
  \A n1, n2 \in NameInputs :
    C11_sameIdentity(n1, n2) =>
      /\ isValidPlayer(whitelist, n1, "ok") = isValidPlayer(whitelist, n2, "ok")
      /\ C11_hasRow(n1) => hasAlreadySubmitted(elecciones, n2, "ok")


\* C12: with an answering store, a non-blank name passes isValidPlayer if
\* and only if at least one active whitelist entry equals the trimmed name
\* up to case, whatever the whitelist holds.  Stated for names free of the
\* characters ILIKE reads as pattern syntax, which C27 is about.
C12_plain(name) ==
  \A i \in 1..Len(name.s) : name.s[i] \notin {"_", "%", "*", "\\"}

C12_activeMatch(name) ==
  \E e \in whitelist : e.is_active /\ normalized(e.mc_name) = normalized(name.s)

C12_ValidIffActiveMatch ==
  \A r \in Reqs :
    (rq[r].whitelistLookup = "ok" /\ ~blank(rq[r].mcName)
       /\ C12_plain(rq[r].mcName)) =>
      (rq[r].reason # "whitelist" <=> C12_activeMatch(rq[r].mcName))

\* C13: with the name free of a prior submission, a request from an address
\* that has maxPerIp or more Attempt records inside the window is denied with
\* reason ip (429); a request from an address without records passes the IP
\* check whatever records other addresses have, and is then admitted exactly
\* when the device count permits.  The sentinel address is C17's case.
C13_records(address) ==
  Cardinality({i \in 1..Len(attempts) :
                 /\ attempts[i].ip_address = address
                 /\ now - config.windowHours <= attempts[i].submitted_at})

C13_deviceRecords(fingerprint) ==
  Cardinality({i \in 1..Len(attempts) :
                 /\ attempts[i].device_fingerprint = fingerprint
                 /\ now - config.windowHours <= attempts[i].submitted_at})

C13_IpLimitPerAddress ==
  [][ /\ (rq[1].pc = "countIpSubmissions" /\ rq'[1] # rq[1]
          /\ rq[1].clientIp # Unknown) =>
            /\ C13_records(rq[1].clientIp) >= config.maxPerIp =>
                 /\ rejected(rq'[1])
                 /\ rq'[1].status = 429 /\ rq'[1].reason = "ip"
            /\ C13_records(rq[1].clientIp) = 0 =>
                 rq'[1].pc = "countDeviceSubmissions"
      /\ (rq[1].pc = "countDeviceSubmissions" /\ rq'[1] # rq[1]
          /\ rq[1].clientIp # Unknown /\ C13_records(rq[1].clientIp) = 0) =>
            (admitted(rq'[1]) <=>
               \/ rq[1].deviceFingerprint = <<>>
               \/ C13_deviceRecords(rq[1].deviceFingerprint) < config.maxPerDevice)
    ]_vars

\* a request denied for its address after a request from another address
\* got through the gate while the first address already had a record
C13_Witness ==
  /\ rq[1].status = 429 /\ rq[1].reason = "ip"
  /\ \E i, j \in 1..Len(attempts) :
       /\ i < j
       /\ attempts[i].ip_address = rq[1].clientIp
       /\ attempts[j].ip_address \notin {rq[1].clientIp, Unknown}
       /\ attempts[j].submitted_at - config.windowHours <= attempts[i].submitted_at

\* C14: the device quota is counted across names: once maxPerDevice Attempt
\* records inside the window carry a fingerprint, a request with that
\* fingerprint that passed the name and IP checks is denied with reason device
\* (429) whatever name it claims, and otherwise it is admitted.
C14_deviceRecords(fingerprint) ==
  Cardinality({i \in 1..Len(attempts) :
                 /\ attempts[i].device_fingerprint = fingerprint
                 /\ now - config.windowHours <= attempts[i].submitted_at})

C14_DeviceLimitAcrossNames ==
  [][ (rq[1].pc = "countDeviceSubmissions" /\ rq'[1] # rq[1]
       /\ rq[1].deviceFingerprint # <<>>) =>
         IF C14_deviceRecords(rq[1].deviceFingerprint) >= config.maxPerDevice
         THEN /\ rejected(rq'[1])
              /\ rq'[1].status = 429 /\ rq'[1].reason = "device"
         ELSE admitted(rq'[1])
    ]_vars

\* a denial for the device under a name no Attempt record carries, the
\* fingerprint's two records being under two different names
C14_Witness ==
  /\ rq[1].status = 429 /\ rq[1].reason = "device"
  /\ config.maxPerDevice = 2
  /\ \A i \in 1..Len(attempts) :
       normalized(attempts[i].mc_name) # normalized(rq[1].mcName.s)
  /\ \E i, j \in 1..Len(attempts) :
       /\ attempts[i].device_fingerprint = rq[1].deviceFingerprint
       /\ attempts[j].device_fingerprint = rq[1].deviceFingerprint
       /\ normalized(attempts[i].mc_name) # normalized(attempts[j].mc_name)

\* C15: the duplicate-name check has no time window: once a Submission row
\* exists for a name, a whitelisted request claiming that name (in any case,
\* with surrounding blanks) is denied with reason name (429) however late it
\* comes, also when every Attempt record of the name has left the window.
C15_submitted(name) ==
  \E i \in 1..Len(elecciones) :
    normalized(elecciones[i].mc_name) = normalized(name.s)

C16_count(column, value) ==
  Cardinality({i \in 1..Len(attempts) :
                 /\ attempts[i][column] = value
                 /\ ~(attempts[i].submitted_at < now - config.windowHours)})

C16_ExactWindowCount ==
  [][ /\ (rq[1].pc = "countIpSubmissions" /\ rq'[1] # rq[1]
          /\ rq'[1].ipLookup = "ok") =>
            rq'[1].ipCount = C16_count("ip_address", rq[1].clientIp)
      /\ (rq[1].pc = "countDeviceSubmissions" /\ rq'[1] # rq[1]
          /\ rq'[1].deviceLookup = "ok") =>
            rq'[1].deviceCount =
              C16_count("device_fingerprint", rq[1].deviceFingerprint)
    ]_vars

\* an address at its limit is admitted again: one of its records lies exactly
\* on the boundary and was counted, enough older ones were not
C16_Witness ==
  /\ admitted(rq[1])
  /\ rq[1].ipLookup = "ok"
  /\ rq[1].ipCount = 1
  /\ \E i \in 1..Len(attempts) :
       /\ attempts[i].ip_address = rq[1].clientIp
       /\ attempts[i].submitted_at = now - config.windowHours
  /\ Cardinality({i \in 1..Len(attempts) :
                    attempts[i].ip_address = rq[1].clientIp}) >= config.maxPerIp

\* C17: for the address "unknown" (or an empty one) countIpSubmissions
\* returns 0 without a query, and for an empty fingerprint
\* countDeviceSubmissions does, whatever Attempt records exist; such a
\* request is never denied with reason ip, respectively device.
C17_asked(q, column) == \E i \in 1..Len(q.queries) : q.queries[i] = column

C17_SentinelNeverCounted ==
  \A r \in Reqs :
    /\ rq[r].clientIp \in {Unknown, <<>>} =>
         /\ rq[r].reason # "ip"
         /\ ~C17_asked(rq[r], "ip_address")
         /\ rq[r].ipLookup \in {"none", "skipped"}
         /\ rq[r].ipLookup = "skipped" => rq[r].ipCount = 0
    /\ rq[r].deviceFingerprint = <<>> =>
         /\ rq[r].reason # "device"
         /\ ~C17_asked(rq[r], "device_fingerprint")
         /\ rq[r].deviceLookup \in {"none", "skipped"}
         /\ rq[r].deviceLookup = "skipped" => rq[r].deviceCount = 0

\* admitted without address and fingerprint while the store holds the
\* maximum of records with "unknown" and with the empty fingerprint
C17_Witness ==
  /\ admitted(rq[1])
  /\ rq[1].clientIp = Unknown /\ rq[1].deviceFingerprint = <<>>
  /\ rq[1].ipLookup = "skipped" /\ rq[1].deviceLookup = "skipped"
  /\ Cardinality({i \in 1..Len(attempts) :
                    /\ attempts[i].ip_address = Unknown
                    /\ attempts[i].device_fingerprint = <<>>
                    /\ attempts[i].submitted_at >= now - config.windowHours})
       >= config.maxPerIp + config.maxPerDevice - 1

\* C18: the address the gate works with is the first comma-separated,
\* trimmed entry of the forwarded-for header when that entry is not empty,
\* otherwise the real-ip header, otherwise the socket address, otherwise
\* "unknown"; and it is the same for a forwarded-for header that is one
\* string and for a list of strings beginning with that string.
C18_firstEntry(h) ==
  IF h.xff.t = "none" \/ h.xff.v = <<>> THEN <<>>
  ELSE LET first == h.xff.v[1]
           comma == {i \in 1..Len(first) : first[i] = ","}
           end == IF comma = {} THEN Len(first)
                  ELSE (CHOOSE i \in comma : \A j \in comma : i <= j) - 1
           entry == SubSeq(first, 1, end)
           solid == {i \in 1..Len(entry) : entry[i] # " "}
       IN  IF solid = {} THEN <<>>
           ELSE SubSeq(entry,
                       CHOOSE i \in solid : \A j \in solid : i <= j,
                       CHOOSE i \in solid : \A j \in solid : i >= j)

C18_resolved(h) ==
  IF C18_firstEntry(h) # <<>> THEN C18_firstEntry(h)
  ELSE IF h.realIp.t # "none" /\ h.realIp.v[1] # <<>> THEN h.realIp.v[1]
  ELSE IF h.remoteAddress # <<>> THEN h.remoteAddress
  ELSE Unknown

C18_AddressPrecedence ==
  \A r \in Reqs :
    rq[r].pc # "idle" =>
      /\ rq[r].clientIp = C18_resolved(rq[r].headers)
      /\ rq[r].headers.xff.t = "string" =>
           \A rest \in {<<>>, << <<"8">> >>} :
             getClientIp([rq[r].headers EXCEPT
                            !.xff = HArray(rq[r].headers.xff.v \o rest)])
               = rq[r].clientIp

\* a request whose forwarded-for header is a list, resolved to the list's
\* first entry although a real-ip header and a socket address are there
C18_Witness ==
  /\ rq[1].pc # "idle"
  /\ rq[1].headers.xff.t = "array"
  /\ rq[1].headers.realIp = HString(<<"2">>)
  /\ rq[1].headers.remoteAddress = <<"7">>
  /\ rq[1].clientIp = <<"1">>

\* C19: a fault raised in the gate's own steps (no request body, a name
\* that is not a string) ends the request with status 500 and the gate's
\* fixed text, before any query and without next(); no response of the gate
\* carries a fault's own message.
C19_faulted(q) == q.pc # "idle" /\ q.mcName.t \in {"unread", "number"}

C19_GateFaultsAreGeneric500 ==
  \A r \in Reqs :
    /\ C19_faulted(rq[r]) =>
         /\ rq[r].status = 500 /\ rq[r].reason = "internal"
         /\ rq[r].responses = 1 /\ rq[r].nextCalls = 0
         /\ rq[r].queries = <<>>
    /\ rq[r].reason = "exception" => rq[r].nextCalls = 1
    /\ rq[r].reason = "internal" => C19_faulted(rq[r])

\* both faults have happened: a request without body and one with a name
\* that is not a string
C19_Witness ==
  /\ rq[1].pc = "done" /\ rq[1].mcName.t = "unread"
  /\ rq[2].pc = "done" /\ rq[2].mcName.t = "number"
  /\ rq[1].status = 500 /\ rq[2].status = 500

\* C20: every request through the gate reaches exactly one terminal outcome
\* and stays there: Rejected, with one response of status 400, 403, 429
\* (exactly when checkRateLimits denied) or 500 and no next(), or Admitted,
\* with next() called once and no response of the gate; and when every store
\* call of the gate returns or fails, a request inside the gate reaches one
\* of the two.
C20_gatePcs ==
  {"isValidPlayer", "hasAlreadySubmitted", "countIpSubmissions",
   "countDeviceSubmissions"}

C20_gateReasons == {"missing", "whitelist", "name", "ip", "device", "internal"}

C20_pending(q) == q.pc \in C20_gatePcs

C20_denied(q) ==
  \/ q.alreadySubmitted = "yes"
  \/ q.ipCount >= config.maxPerIp
  \/ q.deviceCount >= config.maxPerDevice

C20_terminal(q) ==
  /\ q.responses \in 0..1 /\ q.nextCalls \in 0..1
  /\ C20_pending(q) \/ q.pc = "idle" => q.responses = 0 /\ q.nextCalls = 0
  /\ ~C20_pending(q) /\ q.pc # "idle" => rejected(q) \/ admitted(q)
  /\ rejected(q) =>
       /\ q.responses = 1
       /\ q.status \in {400, 403, 429, 500}
       /\ q.reason \in C20_gateReasons
  /\ admitted(q) =>
       /\ q.nextCalls = 1
       /\ q.reason \notin C20_gateReasons
  /\ (rejected(q) /\ q.status = 429) <=> C20_denied(q)

C20_stays(r) ==
  \/ rq[r].pc = "done" /\ started' = started + 1
  \/ /\ rejected(rq[r]) => rq'[r] = rq[r]
     /\ admitted(rq[r]) => admitted(rq'[r])

C20_OneTerminalOutcome ==
  /\ [](\A r \in Reqs : C20_terminal(rq[r]))
  /\ [][\A r \in Reqs : C20_stays(r)]_vars
  /\ \A r \in Reqs :
       C20_pending(rq[r]) ~> (rejected(rq[r]) \/ admitted(rq[r]))

\* one request rejected with 429 beside one that was admitted
C20_Witness ==
  \E r1, r2 \in Reqs :
    /\ rejected(rq[r1]) /\ rq[r1].status = 429
    /\ admitted(rq[r2])

\* C21: with an answering store, a request whose name has an active
\* whitelist entry, no Submission row and no Attempt record for its address
\* or fingerprint is admitted: no step of the gate rejects it.
C21_fresh(q) ==
  /\ \E e \in whitelist :
       e.is_active /\ normalized(e.mc_name) = normalized(q.mcName.s)
  /\ \A i \in 1..Len(elecciones) :
       normalized(elecciones[i].mc_name) # normalized(q.mcName.s)
  /\ \A i \in 1..Len(attempts) :
       /\ attempts[i].ip_address # q.clientIp
       /\ attempts[i].device_fingerprint # q.deviceFingerprint

C21_FreshWhitelistedAdmitted ==
  [][ (rq[1].pc \in C20_gatePcs /\ rq'[1] # rq[1] /\ C21_fresh(rq[1])) =>
        ~rejected(rq'[1])
    ]_vars

\* C22: after the Submission insert of an admitted request succeeded, the
\* handler stores one Attempt row for the request, with status success and
\* the id of the Submission row just inserted, and only after that insert
\* returned; the row is there once the Attempt insert answers, and a request
\* never stores a second one.
C22_successRows(at, id) ==
  {i \in 1..Len(at) : at[i].eleccion_id = id /\ at[i].status = "success"}

C22_step(r) ==
  /\ rq[r].pc = "recordSuccess" => 
       /\ admitted(rq[r])
       /\ rq[r].dataId \in 1..Len(elecciones)
       /\ elecciones[rq[r].dataId].mc_name = trim(rq[r].mcName.s)
       /\ rq[r].queries[Len(rq[r].queries)] = "insert elecciones"
       /\ C22_successRows(attempts, rq[r].dataId) = {}
  /\ (rq[r].pc = "recordSuccess" /\ rq'[r] # rq[r]) =>
       /\ rq'[r].status = 201
       /\ IF rq'[r].recorded = 1
          THEN /\ Len(attempts') = Len(attempts) + 1
               /\ C22_successRows(attempts', rq[r].dataId) = {Len(attempts')}
               /\ attempts'[Len(attempts')].mc_name = trim(rq[r].mcName.s)
          ELSE attempts' = attempts
  /\ (rq[r].pc # "recordSuccess" /\ rq'[r] # rq[r]) =>
       \A i \in 1..Len(attempts') :
         attempts'[i].status = "success" => i <= Len(attempts)

C22_OneSuccessRowAfterInsert == [][\A r \in Reqs : C22_step(r)]_vars

\* a created submission with its success row
C22_Witness ==
  \E r \in Reqs :
    /\ rq[r].status = 201 /\ rq[r].recorded = 1
    /\ Cardinality(C22_successRows(attempts, rq[r].dataId)) = 1

\* C23: every Attempt row has status success exactly when its eleccion_id
\* is present and status failed otherwise, for every id passed to
\* recordSubmissionAttempt, the absent one included.
C23_consistent(row) ==
  /\ row.status \in {"success", "failed"}
  /\ row.status = "success" <=> row.eleccion_id # 0

C23_StatusIffSubmissionId ==
  /\ \A i \in 1..Len(attempts) : C23_consistent(attempts[i])
  /\ \A r \in Reqs, id \in 0..Len(elecciones) :
       C23_consistent(attemptRow(S(<<"a", "b">>), rq[r].clientIp,
                                 rq[r].deviceFingerprint, rq[r].userAgent,
                                 id, now))

\* a success row and a failed row side by side
C23_Witness ==
  \E i, j \in 1..Len(attempts) :
    /\ attempts[i].status = "success" /\ attempts[i].eleccion_id # 0
    /\ attempts[j].status = "failed" /\ attempts[j].eleccion_id = 0

\* C24: recordSubmissionAttempt never raises to the handler: whatever the
\* Attempt insert does (row stored, error result, exception), the handler
\* goes on to its own response and never to its catch, and an insert that
\* failed leaves the Attempt table as it was.
C24_step(r) ==
  (rq[r].pc \in {"recordFailed", "recordSuccess"} /\ rq'[r] # rq[r]) =>
    /\ rq'[r].pc = "done"
    /\ rq'[r].reason # "exception"
    /\ rq'[r].reason = (IF rq[r].pc = "recordSuccess" THEN "created"
                        ELSE "database")
    /\ rq'[r].queries = Append(rq[r].queries, "insert elecciones_submissions")
    /\ \/ rq'[r].recorded = 1 /\ Len(attempts') = Len(attempts) + 1
       \/ rq'[r].recorded = 0 /\ attempts' = attempts

C24_RecorderNeverRaises == [][\A r \in Reqs : C24_step(r)]_vars

\* the handler answered 201 and 500 after Attempt inserts that failed
C24_Witness ==
  \E r1, r2 \in Reqs :
    /\ rq[r1].status = 201 /\ rq[r1].recorded = 0
    /\ rq[r2].reason = "database" /\ rq[r2].recorded = 0
    /\ attempts = <<>>

\* C25: recording never blocks or fails the outer flow: once the outcome of
\* the Submission insert is known the response is delivered, with the same
\* status, whether the Attempt insert succeeds, fails or is still pending.
C25_recording(q) == q.pc \in {"recordFailed", "recordSuccess"}

C25_attemptInserts(q) ==
  Cardinality({i \in 1..Len(q.queries) :
                 q.queries[i] = "insert elecciones_submissions"})

C25_state(q) ==
  /\ C25_recording(q) => q.responses = 0 /\ C25_attemptInserts(q) = 0
  /\ (q.status = 201 \/ q.reason = "database") =>
       /\ q.responses = 1
       /\ C25_attemptInserts(q) = 1
       /\ q.recorded \in {0, 1}

C25_step(r) ==
  (C25_recording(rq[r]) /\ rq'[r] # rq[r]) =>
    /\ rq'[r].responses = 1
    /\ rq'[r].status = (IF rq[r].pc = "recordSuccess" THEN 201 ELSE 500)
    /\ C25_attemptInserts(rq'[r]) = 1

C26_submissions(name) ==
  Cardinality({i \in 1..Len(elecciones) :
                 normalized(elecciones[i].mc_name) = normalized(name.s)})

C26_inWindow(column, value) ==
  Cardinality({i \in 1..Len(attempts) :
                 /\ attempts[i][column] = value
                 /\ attempts[i].submitted_at >= now - config.windowHours})

C26_ConfiguredThresholds ==
  [][ /\ (rq[1].pc = "hasAlreadySubmitted" /\ rq'[1] # rq[1]) =>
           (rq'[1].reason = "name" <=>
              C26_submissions(rq[1].mcName) >= config.maxPerName)
      /\ (rq[1].pc = "countIpSubmissions" /\ rq'[1] # rq[1]
          /\ rq[1].clientIp # Unknown) =>
           (rq'[1].reason = "ip" <=>
              C26_inWindow("ip_address", rq[1].clientIp) >= config.maxPerIp)
      /\ (rq[1].pc = "countDeviceSubmissions" /\ rq'[1] # rq[1]
          /\ rq[1].deviceFingerprint # <<>>) =>
           (rq'[1].reason = "device" <=>
              C26_inWindow("device_fingerprint", rq[1].deviceFingerprint)
                >= config.maxPerDevice)
    ]_vars

\* C27: a claimed name matches a stored name only if the two are equal
\* after trimming and case folding: a name passes the whitelist lookup only
\* through an active entry equal to it, and is reported as already submitted
\* only because of a Submission row equal to it, whatever characters it has.
C27_equal(stored, name) == normalized(stored) = normalized(name.s)

C27_MatchIsEquality ==
  \A r \in Reqs :
    /\ (rq[r].whitelistLookup = "ok" /\ rq[r].reason # "whitelist") =>
         \E e \in whitelist : e.is_active /\ C27_equal(e.mc_name, rq[r].mcName)
    /\ rq[r].alreadySubmitted = "yes" =>
         \E i \in 1..Len(elecciones) :
           C27_equal(elecciones[i].mc_name, rq[r].mcName)

\* C28: the prior-submission check fails soft: when its lookup returns an
\* error result or throws, hasAlreadySubmitted is false and checkRateLimits
\* goes on to the counts, so a whitelisted name that has a Submission row
\* can be admitted again while the lookup fails.
C28_PriorSubmissionFailsSoft ==
  \A r \in Reqs :
    rq[r].pc = "hasAlreadySubmitted" =>
      \A outcome \in {"error", "throw"} :
        /\ ~hasAlreadySubmitted(elecciones, rq[r].mcName, outcome)
        /\ afterSubmitted(rq[r], elecciones, outcome).pc = "countIpSubmissions"
        /\ afterSubmitted(rq[r], elecciones, outcome).responses = 0

\* a name admitted again after its Submission was stored by an earlier
\* request of the same pipeline, the other pipeline never used
C28_Witness ==
  /\ admitted(rq[1])
  /\ rq[1].pc = "handler"
  /\ rq[1].alreadySubmitted = "no"
  /\ rq[2].pc = "idle"
  /\ \E i \in 1..Len(elecciones) :
       normalized(elecciones[i].mc_name) = normalized(rq[1].mcName.s)

\* C29: the IP and device counts take Attempt records of both statuses: a
\* failed record uses up quota like a success record, so an address is
\* denied with reason ip after maxPerIp failed attempts although no
\* Submission was ever stored; a request the gate rejects writes no Attempt
\* record.
C29_records(column, value, statuses) ==
  Cardinality({i \in 1..Len(attempts) :
                 /\ attempts[i][column] = value
                 /\ attempts[i].status \in statuses
                 /\ attempts[i].submitted_at >= now - config.windowHours})

C29_step ==
  /\ (rq[1].pc = "countIpSubmissions" /\ rq'[1] # rq[1]
      /\ rq'[1].ipLookup = "ok") =>
        /\ rq'[1].ipCount =
             C29_records("ip_address", rq[1].clientIp, {"success"})
             + C29_records("ip_address", rq[1].clientIp, {"failed"})
        /\ C29_records("ip_address", rq[1].clientIp, {"failed"})
             >= config.maxPerIp => rq'[1].reason = "ip"
  /\ (rq[1].pc = "countDeviceSubmissions" /\ rq'[1] # rq[1]
      /\ rq'[1].deviceLookup = "ok") =>
        rq'[1].deviceCount =
          C29_records("device_fingerprint", rq[1].deviceFingerprint,
                      {"success", "failed"})
  /\ (~rejected(rq[1]) /\ rejected(rq'[1])) => attempts' = attempts

C29_FailedAttemptsUseQuota ==
  /\ [][C29_step]_vars
  /\ [](rejected(rq[1]) =>
          /\ rq[1].recorded = 0
          /\ \A i \in 1..Len(rq[1].queries) :
               rq[1].queries[i] # "insert elecciones_submissions")

\* an address denied after failed attempts only, no Submission stored, the
\* denied requests that came before having left no record
C29_Witness ==
  /\ rq[1].status = 429 /\ rq[1].reason = "ip"
  /\ elecciones = <<>>
  /\ attempts # <<>>
  /\ \A i \in 1..Len(attempts) : attempts[i].status = "failed"
  /\ Len(attempts) < started - 1

\* C30: whenever the forwarded-for header has a non-empty first entry, that
\* entry, not the socket address, is the address the IP quota is counted
\* and recorded under: requests from one socket with different entries use
\* different quotas, requests from different sockets with the same entry
\* share one.
C30_entry(h) ==
  IF h.xff.t = "none" THEN <<>> ELSE trim(FirstEntry(h.xff.v[1]))

C30_quota(address) ==
  Cardinality({i \in 1..Len(attempts) :
                 /\ attempts[i].ip_address = address
                 /\ attempts[i].submitted_at >= now - config.windowHours})

C30_step ==
  LET h == rq[1].headers
      address == IF C30_entry(h) # <<>> THEN C30_entry(h) ELSE h.remoteAddress
  IN  /\ (rq[1].pc = "countIpSubmissions" /\ rq'[1] # rq[1]) =>
           (rq'[1].reason = "ip" <=> C30_quota(address) >= config.maxPerIp)
      /\ (rq[1].pc \in {"recordFailed", "recordSuccess"}
          /\ rq'[1].recorded = 1) =>
           attempts'[Len(attempts')].ip_address = address

C30_ForwardedForDecidesQuota ==
  /\ [][C30_step]_vars
  /\ [](rq[1].pc # "idle" =>
          \A a \in {<<"6">>, <<"7">>} :
            C30_entry(rq[1].headers) # <<>> =>
              getClientIp([rq[1].headers EXCEPT !.remoteAddress = a, !.ip = a])
                = C30_entry(rq[1].headers))

\* the client on socket 6 is denied for the entry 1 that the client on
\* socket 7 used up, while a record of socket 6's own is under entry 3
C30_Witness ==
  /\ rq[1].status = 429 /\ rq[1].reason = "ip"
  /\ rq[1].headers.remoteAddress = <<"6">>
  /\ rq[1].clientIp = <<"1">>
  /\ \E i, j \in 1..Len(attempts) :
       /\ attempts[i].ip_address = <<"1">> /\ attempts[i].user_agent = <<"V">>
       /\ attempts[j].ip_address = <<"3">> /\ attempts[j].user_agent = <<"U">>
  /\ \A i \in 1..Len(attempts) :
       attempts[i].user_agent = <<"U">> => attempts[i].ip_address # <<"1">>

====
